---- MODULE Spec2Model ----
(***************************************************************************)
(* Chorded keyboard-shortcut dispatcher of llka-verwaltung                 *)
(* (KeyboardShortcutsProvider, src/unnamed/part_011).                      *)
(*                                                                         *)
(* One action per event the provider reacts to.  KeyDown is the whole      *)
(* `handleKeyDown` listener followed by the React commit that its          *)
(* setSequenceState call schedules: the update is made inside a discrete   *)
(* native event, so React renders it and flushes the passive effect        *)
(* (cleanup of lines 222-227, then re-subscription with the fresh closure) *)
(* in the microtask that follows the listener, before any other key event  *)
(* or timer callback can run.                                              *)
(*                                                                         *)
(* The module also follows three state hooks of the same application:      *)
(* useColumnVisibility and SequentialModeProvider (src/unnamed/part_010)   *)
(* and useFilters (src/hooks/use-filters.ts), each under a specification   *)
(* of its own; a call on a hook is the call and the render that follows.   *)
(***************************************************************************)
EXTENDS Integers, Sequences, FiniteSets, TLC

VARIABLES
    now,                 \* Date.now(), in ms
    sequenceState,       \* useState<SequenceState>           (line 52)
    lastShiftPressRef,   \* useRef<number>(0)                 (line 55)
    commandMenuOpenRef,  \* useRef of the registered setter   (line 58)
    timeoutRef,          \* useRef<Timeout | null>            (line 64)
    timers,              \* handles pending in the host's timer queue
    toasts,              \* awaiting-second-key toasts on screen
    nextHandle,          \* next id handed out by toast() / setTimeout()
    prevKey,             \* history: the last eligible key event
    ev,                  \* history: the event handled by the last step
    fx,                  \* history: what the last step did to the outside
    pre,                 \* history: dispatcher state before the last step
    mounted,             \* the provider is mounted
    listening,           \* its keydown listener is subscribed to the document
    visibleColumns,      \* useColumnVisibility: useState<string[]>
    activeFilters,       \* useFilters: useState<ActiveFilter[]>
    open,                \* SequentialModeProvider: useState(false)
    step,                \*   useState<SequentialModeStep>(1)
    selectedCustomer,    \*   useState<Customer | null>(null)
    selectedItems,       \*   useState<SelectedItem[]>([])
    expectedDate,        \*   useState<Date>(one week from now)
    employee,            \*   useState('')
    call,                \* history: the last call made on one of these hooks
    prior                \* history: that hook's state before the call

dispatcherVars == <<now, sequenceState, lastShiftPressRef, commandMenuOpenRef,
                    timeoutRef, timers, toasts, nextHandle, prevKey, ev, fx, pre,
                    mounted, listening>>

columnVars == <<visibleColumns>>

filterVars == <<activeFilters>>

sequentialVars == <<open, step, selectedCustomer, selectedItems, expectedDate, employee>>

hookVars == <<columnVars, filterVars, sequentialVars, call, prior>>

vars == <<dispatcherVars, hookVars>>

----------------------------------------------------------------------------
(* Program constants *)

SEQUENCE_TIMEOUT == 2000
DOUBLE_SHIFT_TIMEOUT == 300

(* Bounds of the model *)

StartTime == 1000      \* Date.now() at mount (any value >= DOUBLE_SHIFT_TIMEOUT)
MaxElapsed == 2001     \* the clock is followed for this many ms after mount
MaxSequences == 2      \* toast / timer handles handed out
MaxSetter == 1         \* setters a UI surface can register: 1..MaxSetter

\* the instants, in ms after mount, at which something can happen
Offsets == {0, 299, 300, 2000, MaxElapsed}

Null == 0
NoopSetter == 0              \* the initial `() => {}` of the setter refs

----------------------------------------------------------------------------
(* Inputs: raw key events and the element holding focus *)

RawKeys == {"n", "N", "c", "i", "g", "o", "Escape", "Shift"}

ToLowerCase(k) ==
    CASE k = "N" -> "n"
      [] k = "Escape" -> "escape"
      [] k = "Shift" -> "shift"
      [] OTHER -> k

\* one modifier at most is enough to reach every branch of the gate
Modifiers == {"none", "ctrl", "meta", "alt", "shift"}

NoElement == [tagName |-> "none", contenteditable |-> "absent", role |-> "absent"]

Elements ==
    { NoElement,
      [tagName |-> "BODY",     contenteditable |-> "absent", role |-> "absent"],
      [tagName |-> "INPUT",    contenteditable |-> "absent", role |-> "absent"],
      [tagName |-> "TEXTAREA", contenteditable |-> "absent", role |-> "absent"],
      [tagName |-> "DIV",      contenteditable |-> "true",   role |-> "absent"],
      [tagName |-> "DIV",      contenteditable |-> "",       role |-> "absent"],
      [tagName |-> "DIV",      contenteditable |-> "false",  role |-> "absent"],
      [tagName |-> "DIV",      contenteditable |-> "absent", role |-> "textbox"] }

\* mutant: the ARIA textbox check is forgotten
isInputFocused_noTextbox(activeElement) ==
    IF activeElement = NoElement THEN FALSE
    ELSE IF activeElement.tagName = "INPUT" \/ activeElement.tagName = "TEXTAREA" THEN TRUE
    ELSE IF /\ activeElement.contenteditable # "absent"
            /\ activeElement.contenteditable \in {"true", "", "plaintext-only"} THEN TRUE
    ELSE FALSE

isInputFocused(activeElement) ==
    IF activeElement = NoElement THEN FALSE
    ELSE IF activeElement.tagName = "INPUT" \/ activeElement.tagName = "TEXTAREA" THEN TRUE
    ELSE IF /\ activeElement.contenteditable # "absent"
            /\ activeElement.contenteditable \in {"true", "", "plaintext-only"} THEN TRUE
    ELSE IF activeElement.role = "textbox" THEN TRUE
    ELSE FALSE

\* mutant: the Meta key is forgotten
ModifierPressed_noMeta(e) == e.ctrlKey \/ e.altKey

ModifierPressed(e) == e.ctrlKey \/ e.metaKey \/ e.altKey

----------------------------------------------------------------------------
(* Chord registry (shortcut-registry.ts) *)

SHORTCUT_REGISTRY ==
    [ n |-> << [sequence |-> <<"n", "c">>, description |-> "create customer"],
               [sequence |-> <<"n", "i">>, description |-> "create item"] >>,
      g |-> << [sequence |-> <<"g", "o">>, description |-> "open overdue"] >> ]

getShortcutsForKey(key) ==
    IF key \in DOMAIN SHORTCUT_REGISTRY THEN SHORTCUT_REGISTRY[key] ELSE << >>

----------------------------------------------------------------------------
(* The handler works on a record `s` of everything it can change; `cl` is   *)
(* the sequenceState value its closure captured at render time.            *)

Idle == [status |-> "idle"]

Waiting(key, t, id) ==
    [status |-> "waiting", firstKey |-> key, timestamp |-> t, toastId |-> id]

NoFx ==
    [ invoked   |-> << >>,    \* registry handlers called, with the context passed
      notes     |-> << >>,    \* toast.success / toast.error shown
      opened    |-> << >>,    \* setters called with `true` by the double Shift
      shown     |-> 0,        \* awaiting toasts shown
      prevented |-> FALSE,    \* e.preventDefault() called
      uncaught  |-> FALSE ]   \* an exception left handleKeyDown

preventDefault(s) == [s EXCEPT !.fx.prevented = TRUE]

toastDismiss(s, id) == [s EXCEPT !.toasts = {x \in @ : x.id # id}]

toastNote(s, kind, about) ==
    [s EXCEPT !.fx.notes = Append(@, [kind |-> kind, about |-> about])]

\* mutant: the call cancels nothing
clearTimeout_noop(s, h) == s

clearTimeout(s, h) == [s EXCEPT !.timers = @ \ {h}]

setSequenceState(s, v) == [s EXCEPT !.sequenceState = v, !.rerender = TRUE]

\* mutant: the bundle holds the setter captured at mount
getShortcutContext_stale(s) == [setCommandMenuOpen |-> NoopSetter]

getShortcutContext(s) == [setCommandMenuOpen |-> s.commandMenuOpenRef]

\* mutant: the awaiting toast is not dismissed
resetSequence_keepToast(s, cl) ==
    LET b == setSequenceState(s, Idle)
    IN  IF b.timeoutRef # Null
        THEN [clearTimeout(b, b.timeoutRef) EXCEPT !.timeoutRef = Null]
        ELSE b

resetSequence(s, cl) ==
    LET a == IF cl.status = "waiting" THEN toastDismiss(s, cl.toastId) ELSE s
        b == setSequenceState(a, Idle)
    IN  IF b.timeoutRef # Null
        THEN [clearTimeout(b, b.timeoutRef) EXCEPT !.timeoutRef = Null]
        ELSE b

\* lines 105-109
CancelOnEscape(s, cl) == resetSequence(preventDefault(s), cl)

\* mutant: a press exactly DOUBLE_SHIFT_TIMEOUT later still counts as double
IsDoubleShift_inclusive(timeSinceLastShift) == timeSinceLastShift <= DOUBLE_SHIFT_TIMEOUT

\* line 116
IsDoubleShift(timeSinceLastShift) == timeSinceLastShift < DOUBLE_SHIFT_TIMEOUT

\* mutant: the tracked press is kept after the search was opened
HandleShift_noReset(s, t) ==
    LET timeSinceLastShift == t - s.lastShiftPressRef
    IN  IF IsDoubleShift(timeSinceLastShift)
        THEN [preventDefault(s) EXCEPT !.fx.opened = Append(@, s.commandMenuOpenRef)]
        ELSE [s EXCEPT !.lastShiftPressRef = t]

\* lines 112-125
HandleShift(s, t) ==
    LET timeSinceLastShift == t - s.lastShiftPressRef
    IN  IF IsDoubleShift(timeSinceLastShift)
        THEN [preventDefault(s) EXCEPT !.fx.opened = Append(@, s.commandMenuOpenRef),
                                       !.lastShiftPressRef = 0]
        ELSE [s EXCEPT !.lastShiftPressRef = t]

\* lines 128-130
ResetShiftTimer(s) ==
    IF s.lastShiftPressRef > 0 THEN [s EXCEPT !.lastShiftPressRef = 0] ELSE s

\* mutant: a sequence is started without looking the key up
IdleBranch_anyKey(s, key, t) ==
    LET toastId == s.nextHandle
        a == [preventDefault(s) EXCEPT
                 !.toasts = @ \cup {[id |-> toastId, shownAt |-> t]},
                 !.fx.shown = @ + 1]
        b == setSequenceState(a, Waiting(key, t, toastId))
    IN  [b EXCEPT !.timeoutRef = s.nextHandle,
                  !.timers = @ \cup {s.nextHandle},
                  !.nextHandle = @ + 1]

\* lines 133-166
IdleBranch(s, key, t) ==
    LET shortcuts == getShortcutsForKey(key)
    IN  IF Len(shortcuts) > 0
        THEN LET toastId == s.nextHandle
                 a == [preventDefault(s) EXCEPT
                          !.toasts = @ \cup {[id |-> toastId, shownAt |-> t]},
                          !.fx.shown = @ + 1]
                 b == setSequenceState(a, Waiting(key, t, toastId))
             IN  [b EXCEPT !.timeoutRef = s.nextHandle,
                           !.timers = @ \cup {s.nextHandle},
                           !.nextHandle = @ + 1]
        ELSE s

\* mutant: the key handler leaves expiry to the timer
IsExpired_never(elapsed) == FALSE

\* line 172
IsExpired(elapsed) == elapsed > SEQUENCE_TIMEOUT

\* mutant: the key is compared with the first key of the sequence
FindMatching_firstKey(shortcuts, key) ==
    LET hits == {j \in 1..Len(shortcuts) : shortcuts[j].sequence[1] = key}
    IN  IF hits = {} THEN 0 ELSE CHOOSE j \in hits : \A m \in hits : j <= m

\* shortcuts.find((s) => s.sequence[1] === key): index of the first match, or 0
FindMatching(shortcuts, key) ==
    LET hits == {j \in 1..Len(shortcuts) : shortcuts[j].sequence[2] = key}
    IN  IF hits = {} THEN 0 ELSE CHOOSE j \in hits : \A m \in hits : j <= m

\* mutant: the handler is called without try/catch
TryHandler_noCatch(s, shortcut, throws) ==
    LET a == [s EXCEPT !.fx.invoked =
                 Append(@, [sequence |-> shortcut.sequence,
                            ctx |-> getShortcutContext(s),
                            threw |-> throws])]
    IN  IF throws
        THEN [a EXCEPT !.fx.uncaught = TRUE]
        ELSE toastNote(a, "success", shortcut.description)

\* lines 188-199: the handler is called inside try/catch
TryHandler(s, shortcut, throws) ==
    LET a == [s EXCEPT !.fx.invoked =
                 Append(@, [sequence |-> shortcut.sequence,
                            ctx |-> getShortcutContext(s),
                            threw |-> throws])]
    IN  IF throws
        THEN toastNote(a, "failure", "Shortcut fehlgeschlagen")
        ELSE toastNote(a, "success", shortcut.description)

\* mutant: the timer is not cleared after the handler
RunMatching_keepTimer(s, cl, shortcut, throws) ==
    LET a == toastDismiss(preventDefault(s), cl.toastId)
        b == TryHandler(a, shortcut, throws)
    IN  IF b.fx.uncaught THEN b ELSE setSequenceState(b, Idle)

\* lines 181-206
RunMatching(s, cl, shortcut, throws) ==
    LET a == toastDismiss(preventDefault(s), cl.toastId)
        b == TryHandler(a, shortcut, throws)
        c == setSequenceState(b, Idle)
    IN  IF b.fx.uncaught THEN b
        ELSE IF c.timeoutRef # Null
        THEN [clearTimeout(c, c.timeoutRef) EXCEPT !.timeoutRef = Null]
        ELSE c

\* mutant: an unmatched second key is reported but the sequence goes on
RejectSecondKey_stay(s, cl, key) ==
    toastNote(preventDefault(s), "unknown", <<cl.firstKey, key>>)

\* mutant: an unmatched second key resets without a notification
RejectSecondKey_silent(s, cl, key) == resetSequence(preventDefault(s), cl)

\* lines 207-217
RejectSecondKey(s, cl, key) ==
    resetSequence(toastNote(preventDefault(s), "unknown", <<cl.firstKey, key>>), cl)

\* mutant: the status is not looked at, every key is taken as a first key
WaitingBranch_restart(s, cl, key, t, throws) == IdleBranch(s, key, t)

\* lines 167-218
WaitingBranch(s, cl, key, t, throws) ==
    LET elapsed == t - cl.timestamp
        shortcuts == getShortcutsForKey(cl.firstKey)
        j == FindMatching(shortcuts, key)
    IN  IF IsExpired(elapsed) THEN resetSequence(s, cl)
        ELSE IF j # 0 THEN RunMatching(s, cl, shortcuts[j], throws)
        ELSE RejectSecondKey(s, cl, key)

\* lines 91-219
handleKeyDown(s, cl, e, t, throws) ==
    IF isInputFocused(e.activeElement) THEN s
    ELSE IF ModifierPressed(e) THEN s
    ELSE LET key == ToLowerCase(e.key)
         IN  IF key = "escape" /\ cl.status = "waiting" THEN CancelOnEscape(s, cl)
             ELSE IF key = "shift" THEN HandleShift(s, t)
             ELSE LET a == ResetShiftTimer(s)
                  IN  IF cl.status = "idle" THEN IdleBranch(a, key, t)
                      ELSE WaitingBranch(a, cl, key, t, throws)

\* lines 222-227: the effect depends on sequenceState, so every
\* setSequenceState re-runs it; its cleanup clears the timer timeoutRef holds
\* (without resetting the ref) before the listener is subscribed again
EffectCleanup(s) ==
    IF s.timeoutRef # Null THEN clearTimeout(s, s.timeoutRef) ELSE s

Commit(s) == IF s.rerender THEN EffectCleanup(s) ELSE s

\* mutant: the effect has no dependencies, the listener subscribed at mount
\* keeps the state of the first render
SubscribedClosure_atMount == Idle

\* lines 91 and 221-228: the subscribed listener is the handleKeyDown of the
\* latest render, whose closure holds that render's sequenceState
SubscribedClosure == sequenceState

\* mutant: the cleanup does not unsubscribe
removeEventListener_forgotten(subscribed) == subscribed

\* line 223
removeEventListener(subscribed) == FALSE

----------------------------------------------------------------------------
(* History kept for stating the properties; the code does not read it *)

NoEvent(type) ==
    [type |-> type, key |-> "none", ctrlKey |-> FALSE, metaKey |-> FALSE,
     altKey |-> FALSE, shiftKey |-> FALSE, activeElement |-> NoElement]

KeyEvent(k, m, el) ==
    [type |-> "keydown", key |-> k, ctrlKey |-> (m = "ctrl"), metaKey |-> (m = "meta"),
     altKey |-> (m = "alt"), shiftKey |-> (m = "shift"), activeElement |-> el]

\* section 4.1 of the specification, stated on the event itself
TextEntrySurface(el) ==
    \/ el.tagName \in {"INPUT", "TEXTAREA"}
    \/ el.contenteditable \in {"true", "", "plaintext-only"}
    \/ el.role = "textbox"

Eligible(e) ==
    /\ e.type = "keydown"
    /\ ~TextEntrySurface(e.activeElement)
    /\ ~(e.ctrlKey \/ e.metaKey \/ e.altKey)

Snapshot ==
    [now |-> now, sequenceState |-> sequenceState,
     lastShiftPressRef |-> lastShiftPressRef,
     commandMenuOpenRef |-> commandMenuOpenRef, timeoutRef |-> timeoutRef,
     timers |-> timers, toasts |-> toasts, prevKey |-> prevKey]

----------------------------------------------------------------------------
(* useColumnVisibility (src/unnamed/part_010, second module) *)

MaxColumns == 4        \* columns of the table: 1..MaxColumns

ColumnIds == 1..MaxColumns

Includes(list, x) == \E j \in 1..Len(list) : list[j] = x

\* mutant: the last visible column can be hidden as well
toggleColumn_noGuard(prev, columnId) ==
    IF Includes(prev, columnId)
    THEN SelectSeq(prev, LAMBDA id : id # columnId)
    ELSE Append(prev, columnId)

\* lines 238-248: the updater given to setVisibleColumns
toggleColumn(prev, columnId) ==
    IF Includes(prev, columnId)
    THEN IF Len(prev) = 1 THEN prev
         ELSE SelectSeq(prev, LAMBDA id : id # columnId)
    ELSE Append(prev, columnId)

\* the lists the hook can hold: some columns, each once, in any order
DistinctLists(S) ==
    UNION { {l \in [1..n -> S] : \A i, j \in 1..n : i # j => l[i] # l[j]} :
              n \in 0..Cardinality(S) }

NoCall == [op |-> "none", arg |-> << >>]

----------------------------------------------------------------------------
(* useFilters (src/hooks/use-filters.ts) and generateFilterId               *)
(* (src/lib/filters/filter-utils.ts)                                       *)

MaxValue == 2          \* numeric filter values: 1..MaxValue

Digit(n) ==
    CASE n = 0 -> "0" [] n = 1 -> "1" [] n = 2 -> "2" [] n = 3 -> "3" [] n = 4 -> "4"
      [] n = 5 -> "5" [] n = 6 -> "6" [] n = 7 -> "7" [] n = 8 -> "8" [] n = 9 -> "9"

RECURSIVE NumberToString(_)
NumberToString(n) ==
    IF n < 10 THEN Digit(n) ELSE NumberToString(n \div 10) \o Digit(n % 10)

\* the values a filter can carry: string | number | [number, number]
Text(s) == [kind |-> "string", text |-> s, lo |-> 0, hi |-> 0]

Num(n) == [kind |-> "number", text |-> "", lo |-> n, hi |-> 0]

Range(a, b) == [kind |-> "range", text |-> "", lo |-> a, hi |-> b]

\* String(value) of JavaScript: a string is itself, a number its decimal
\* digits, an array its elements joined by ","
String(value) ==
    CASE value.kind = "string" -> value.text
      [] value.kind = "number" -> NumberToString(value.lo)
      [] value.kind = "range" ->
             NumberToString(value.lo) \o "," \o NumberToString(value.hi)

\* lines 81-83
generateFilterId(filter) ==
    filter.type \o "-" \o filter.field \o "-" \o String(filter.value)

\* mutant: the filter is appended without looking for its id
addFilter_noCheck(prev, filter) ==
    Append(prev, [id |-> generateFilterId(filter), type |-> filter.type,
                  field |-> filter.field, operator |-> filter.operator,
                  value |-> filter.value, label |-> filter.label])

\* lines 59-73
addFilter(prev, filter) ==
    LET id == generateFilterId(filter)
        newFilter == [id |-> id, type |-> filter.type, field |-> filter.field,
                      operator |-> filter.operator, value |-> filter.value,
                      label |-> filter.label]
    IN  IF \E j \in 1..Len(prev) : prev[j].id = id
        THEN prev
        ELSE Append(prev, newFilter)

\* lines 78-80
removeFilter(prev, filterId) == SelectSeq(prev, LAMBDA f : f.id # filterId)

\* lines 85-87
clearAllFilters(prev) == << >>

\* filters a page can ask for; some differ and still get the same id
FilterInputs ==
    { [type |-> "status", field |-> "status", operator |-> "=",
       value |-> Text("active"), label |-> l] : l \in {"Aktiv", "Status: Aktiv"} }
    \cup { [type |-> "numeric", field |-> "deposit", operator |-> ">=",
            value |-> Num(n), label |-> "Pfand"] : n \in 1..MaxValue }
    \cup { [type |-> "numeric", field |-> "deposit", operator |-> ">=",
            value |-> Text(NumberToString(1)), label |-> "Pfand"] }
    \cup { [type |-> "numeric", field |-> "deposit", operator |-> "",
            value |-> Range(1, MaxValue), label |-> "Pfand"] }

FilterIds == {generateFilterId(f) : f \in FilterInputs}

----------------------------------------------------------------------------
(* SequentialModeProvider (src/unnamed/part_010, first module) *)

MaxItems == 2          \* items of the inventory: ids 1..MaxItems
MaxQuantity == 2       \* quantities asked for: 1..MaxQuantity

FirstStep == 1
LastStep == 4

NoCustomer == "null"

Customers == {"K-17"}

Employees == {"", "AB"}

\* expectedDate: the default of one week from now, or a date picked by the user
Dates == {"oneWeekFromNow", "picked"}

Items == {[id |-> i, deposit |-> 5 * i] : i \in 1..MaxItems}

Quantities == 1..MaxQuantity

\* the provider's state, as one record
SequentialState ==
    [open |-> open, step |-> step, selectedCustomer |-> selectedCustomer,
     selectedItems |-> selectedItems, expectedDate |-> expectedDate,
     employee |-> employee]

\* mutant: the selected items survive the reset
reset_keepItems(q) ==
    [q EXCEPT !.step = FirstStep, !.selectedCustomer = NoCustomer,
              !.expectedDate = "oneWeekFromNow", !.employee = ""]

\* lines 64-70
reset(q) ==
    [q EXCEPT !.step = FirstStep, !.selectedCustomer = NoCustomer,
              !.selectedItems = << >>, !.expectedDate = "oneWeekFromNow",
              !.employee = ""]

\* lines 73-78
setOpen(q, newOpen) ==
    LET a == IF ~newOpen THEN reset(q) ELSE q
    IN  [a EXCEPT !.open = newOpen]

\* lines 81-85; `st` is the step of the render that made the callback
goBack(q, st) == IF st > FirstStep THEN [q EXCEPT !.step = st - 1] ELSE q

\* mutant: the last step is not guarded
goNext_noGuard(q, st) == [q EXCEPT !.step = st + 1]

\* lines 87-91
goNext(q, st) == IF st < LastStep THEN [q EXCEPT !.step = st + 1] ELSE q

\* items.findIndex((i) => i.item.id === id): first index, 0 when there is none
FindIndex(items, id) ==
    LET hits == {j \in 1..Len(items) : items[j].item.id = id}
    IN  IF hits = {} THEN 0 ELSE CHOOSE j \in hits : \A m \in hits : j <= m

\* mutant: the item is appended without looking for its id
addItem_append(items, item, quantity) ==
    Append(items, [item |-> item, quantity |-> quantity])

\* lines 94-107: the updater given to setSelectedItems
addItem(items, item, quantity) ==
    LET existingIndex == FindIndex(items, item.id)
    IN  IF existingIndex > 0
        THEN [items EXCEPT ![existingIndex].quantity = quantity]
        ELSE Append(items, [item |-> item, quantity |-> quantity])

\* lines 109-111
removeItem(items, itemId) == SelectSeq(items, LAMBDA i : i.item.id # itemId)

\* lines 113-117
updateItemQuantity(items, itemId, quantity) ==
    [j \in 1..Len(items) |->
        IF items[j].item.id = itemId
        THEN [items[j] EXCEPT !.quantity = quantity]
        ELSE items[j]]

----------------------------------------------------------------------------
(* The hooks as they are after their first render *)

ColumnsAtMount == visibleColumns = <<1>>

FiltersAtMount == activeFilters = << >>

SequentialAtMount ==
    /\ open = FALSE
    /\ step = FirstStep
    /\ selectedCustomer = NoCustomer
    /\ selectedItems = << >>
    /\ expectedDate = "oneWeekFromNow"
    /\ employee = ""

----------------------------------------------------------------------------
(* The state machine *)

DispatcherAtMount ==
    /\ mounted = TRUE
    /\ listening = TRUE
    /\ now = StartTime
    /\ sequenceState = Idle
    /\ lastShiftPressRef = 0
    /\ commandMenuOpenRef = NoopSetter
    /\ timeoutRef = Null
    /\ timers = {}
    /\ toasts = {}
    /\ nextHandle = 1
    /\ prevKey = [key |-> "none", at |-> 0, idle |-> TRUE, opened |-> FALSE,
                  setter |-> NoopSetter]
    /\ ev = NoEvent("mount")
    /\ fx = NoFx
    /\ pre = [now |-> StartTime, sequenceState |-> Idle, lastShiftPressRef |-> 0,
              commandMenuOpenRef |-> NoopSetter, timeoutRef |-> Null, timers |-> {},
              toasts |-> {}, prevKey |-> [key |-> "none", at |-> 0, idle |-> TRUE,
                                          opened |-> FALSE, setter |-> NoopSetter]]

Init ==
    /\ DispatcherAtMount
    /\ ColumnsAtMount
    /\ FiltersAtMount
    /\ SequentialAtMount
    /\ call = NoCall
    /\ prior = << >>

\* a keydown event reaches the document listener; React then commits
KeyDown(k, m, el, throws) ==
    LET e  == KeyEvent(k, m, el)
        s0 == [sequenceState |-> sequenceState, lastShiftPressRef |-> lastShiftPressRef,
               commandMenuOpenRef |-> commandMenuOpenRef, timeoutRef |-> timeoutRef,
               timers |-> timers, toasts |-> toasts, nextHandle |-> nextHandle,
               fx |-> NoFx, rerender |-> FALSE]
    IN  \E s1 \in {IF listening
                    THEN Commit(handleKeyDown(s0, SubscribedClosure, e, now, throws))
                    ELSE s0} :
          /\ s1.nextHandle <= MaxSequences + 1
          /\ throws => s1.fx.invoked # << >>
          /\ sequenceState' = s1.sequenceState
          /\ lastShiftPressRef' = s1.lastShiftPressRef
          /\ timeoutRef' = s1.timeoutRef
          /\ timers' = s1.timers
          /\ toasts' = s1.toasts
          /\ nextHandle' = s1.nextHandle
          /\ fx' = s1.fx
          /\ ev' = e
          /\ pre' = Snapshot
          /\ prevKey' = IF Eligible(e)
                        THEN [key |-> ToLowerCase(k), at |-> now,
                              idle |-> (sequenceState.status = "idle"),
                              opened |-> (s1.fx.opened # << >>),
                              setter |-> commandMenuOpenRef]
                        ELSE prevKey
          /\ UNCHANGED <<now, commandMenuOpenRef, mounted, listening>>
          /\ UNCHANGED hookVars

\* lines 231-233: a UI surface installs its setter
registerCommandMenu(setter) ==
    /\ commandMenuOpenRef' = setter
    /\ ev' = NoEvent("register")
    /\ fx' = NoFx
    /\ pre' = Snapshot
    /\ UNCHANGED <<now, sequenceState, lastShiftPressRef, timeoutRef, timers, toasts,
                   nextHandle, prevKey, mounted, listening>>
    /\ UNCHANGED hookVars

\* lines 146-152: the toast was given `duration: SEQUENCE_TIMEOUT`, after which
\* the toast library takes it off the screen by itself
ToastExpires(x) ==
    /\ now - x.shownAt >= SEQUENCE_TIMEOUT
    /\ toasts' = toasts \ {x}
    /\ ev' = NoEvent("toastExpires")
    /\ fx' = NoFx
    /\ pre' = Snapshot
    /\ UNCHANGED <<now, sequenceState, lastShiftPressRef, commandMenuOpenRef, timeoutRef,
                   timers, nextHandle, prevKey, mounted, listening>>
    /\ UNCHANGED hookVars

\* time passes with no event
Tick(t) ==
    /\ t > now
    /\ now' = t
    /\ ev' = NoEvent("tick")
    /\ fx' = NoFx
    /\ pre' = [Snapshot EXCEPT !.now = now']
    /\ UNCHANGED <<sequenceState, lastShiftPressRef, commandMenuOpenRef, timeoutRef,
                   timers, toasts, nextHandle, prevKey, mounted, listening>>
    /\ UNCHANGED hookVars

\* lines 222-227, run for the last time when the provider unmounts
Unmount ==
    /\ mounted
    /\ mounted' = FALSE
    /\ listening' = removeEventListener(listening)
    /\ timers' = EffectCleanup([timeoutRef |-> timeoutRef, timers |-> timers]).timers
    /\ ev' = NoEvent("unmount")
    /\ fx' = NoFx
    /\ pre' = Snapshot
    /\ UNCHANGED <<now, sequenceState, lastShiftPressRef, commandMenuOpenRef, timeoutRef,
                   toasts, nextHandle, prevKey>>
    /\ UNCHANGED hookVars

Body == [tagName |-> "BODY", contenteditable |-> "absent", role |-> "absent"]

Input == [tagName |-> "INPUT", contenteditable |-> "absent", role |-> "absent"]

\* Spec follows the chord machine and the double Shift through every instant:
\* every key as an eligible event, and two keys as events the gate refuses
KeyInputs ==
    (RawKeys \X {"none"} \X {Body})
        \cup ({"c", "Shift"} \X {"ctrl"} \X {Body})
        \cup ({"c", "Shift"} \X {"none"} \X {Input})

Next ==
    \/ \E i \in KeyInputs, throws \in BOOLEAN : KeyDown(i[1], i[2], i[3], throws)
    \/ \E setter \in 1..MaxSetter : registerCommandMenu(setter)
    \/ \E x \in toasts : ToastExpires(x)
    \/ \E d \in Offsets : Tick(StartTime + d)

Spec == Init /\ [][Next]_vars

\* SpecGate follows the input gate: every key with every focused element and
\* with every modifier, at fewer instants
GateOffsets == {0, 299, MaxElapsed}

GateInputs ==
    (RawKeys \X {"none"} \X Elements) \cup (RawKeys \X Modifiers \X {Body})

NextGate ==
    \/ \E i \in GateInputs : KeyDown(i[1], i[2], i[3], FALSE)
    \/ \E x \in toasts : ToastExpires(x)
    \/ \E d \in GateOffsets : Tick(StartTime + d)

SpecGate == Init /\ [][NextGate]_vars

----------------------------------------------------------------------------
(* The hooks' operations *)

\* the hook is mounted with the columns of the configuration or of localStorage
InitColumns ==
    /\ DispatcherAtMount
    /\ visibleColumns \in DistinctLists(ColumnIds) \ {<< >>}
    /\ FiltersAtMount
    /\ SequentialAtMount
    /\ call = NoCall
    /\ prior = visibleColumns

ToggleColumn(columnId) ==
    /\ visibleColumns' = toggleColumn(visibleColumns, columnId)
    /\ call' = [op |-> "toggleColumn", arg |-> columnId]
    /\ prior' = visibleColumns
    /\ UNCHANGED <<dispatcherVars, filterVars, sequentialVars>>

NextColumns == \E columnId \in ColumnIds : ToggleColumn(columnId)

SpecColumns == InitColumns /\ [][NextColumns]_vars

AddFilter(filter) ==
    /\ activeFilters' = addFilter(activeFilters, filter)
    /\ call' = [op |-> "addFilter", arg |-> filter]
    /\ prior' = activeFilters
    /\ UNCHANGED <<dispatcherVars, columnVars, sequentialVars>>

RemoveFilter(filterId) ==
    /\ activeFilters' = removeFilter(activeFilters, filterId)
    /\ call' = [op |-> "removeFilter", arg |-> filterId]
    /\ prior' = activeFilters
    /\ UNCHANGED <<dispatcherVars, columnVars, sequentialVars>>

ClearAllFilters ==
    /\ activeFilters' = clearAllFilters(activeFilters)
    /\ call' = [op |-> "clearAllFilters", arg |-> << >>]
    /\ prior' = activeFilters
    /\ UNCHANGED <<dispatcherVars, columnVars, sequentialVars>>

NextFilters ==
    \/ \E filter \in FilterInputs : AddFilter(filter)
    \/ \E filterId \in FilterIds : RemoveFilter(filterId)
    \/ ClearAllFilters

SpecFilters == Init /\ [][NextFilters]_vars

\* a call on the provider: q is the state its setters leave
Sequential(op, arg, q) ==
    /\ open' = q.open
    /\ step' = q.step
    /\ selectedCustomer' = q.selectedCustomer
    /\ selectedItems' = q.selectedItems
    /\ expectedDate' = q.expectedDate
    /\ employee' = q.employee
    /\ call' = [op |-> op, arg |-> arg]
    /\ prior' = SequentialState
    /\ UNCHANGED <<dispatcherVars, columnVars, filterVars>>

SetOpen(newOpen) == Sequential("setOpen", newOpen, setOpen(SequentialState, newOpen))

SetStep(st) == Sequential("setStep", st, [SequentialState EXCEPT !.step = st])

GoBack == Sequential("goBack", << >>, goBack(SequentialState, step))

GoNext == Sequential("goNext", << >>, goNext(SequentialState, step))

Reset == Sequential("reset", << >>, reset(SequentialState))

SetSelectedCustomer(customer) ==
    Sequential("setSelectedCustomer", customer,
               [SequentialState EXCEPT !.selectedCustomer = customer])

AddItem(item, quantity) ==
    Sequential("addItem", <<item, quantity>>,
               [SequentialState EXCEPT
                   !.selectedItems = addItem(selectedItems, item, quantity)])

RemoveItem(itemId) ==
    Sequential("removeItem", itemId,
               [SequentialState EXCEPT !.selectedItems = removeItem(selectedItems, itemId)])

UpdateItemQuantity(itemId, quantity) ==
    Sequential("updateItemQuantity", <<itemId, quantity>>,
               [SequentialState EXCEPT
                   !.selectedItems = updateItemQuantity(selectedItems, itemId, quantity)])

SetExpectedDate(date) ==
    Sequential("setExpectedDate", date, [SequentialState EXCEPT !.expectedDate = date])

SetEmployee(name) ==
    Sequential("setEmployee", name, [SequentialState EXCEPT !.employee = name])

\* SpecSequential follows the whole flow, with one item to select
AnItem == CHOOSE item \in Items : item.id = 1

NextSequential ==
    \/ \E newOpen \in BOOLEAN : SetOpen(newOpen)
    \/ \E st \in FirstStep..LastStep : SetStep(st)
    \/ GoBack
    \/ GoNext
    \/ Reset
    \/ \E customer \in Customers \cup {NoCustomer} : SetSelectedCustomer(customer)
    \/ \E quantity \in Quantities : AddItem(AnItem, quantity)
    \/ RemoveItem(AnItem.id)
    \/ \E quantity \in Quantities : UpdateItemQuantity(AnItem.id, quantity)
    \/ \E date \in Dates : SetExpectedDate(date)
    \/ \E name \in Employees : SetEmployee(name)

SpecSequential == Init /\ [][NextSequential]_vars

\* SpecItems follows the list of selected items: every item with every
\* quantity, and the closing of the flow, which empties the list
NextItems ==
    \/ \E item \in Items, quantity \in Quantities : AddItem(item, quantity)
    \/ \E item \in Items : RemoveItem(item.id)
    \/ \E item \in Items, quantity \in Quantities : UpdateItemQuantity(item.id, quantity)
    \/ \E newOpen \in BOOLEAN : SetOpen(newOpen)

SpecItems == Init /\ [][NextItems]_vars

\* SpecUnmount follows the provider through its unmount: a few keys, with the
\* listener there and with it gone
UnmountOffsets == {0, 299, MaxElapsed}

UnmountInputs == {"n", "c", "Escape", "Shift"} \X {"none"} \X {Body}

NextUnmount ==
    \/ \E i \in UnmountInputs : KeyDown(i[1], i[2], i[3], FALSE)
    \/ Unmount
    \/ \E x \in toasts : ToastExpires(x)
    \/ \E d \in UnmountOffsets : Tick(StartTime + d)

SpecUnmount == Init /\ [][NextUnmount]_vars

----------------------------------------------------------------------------
(* Vocabulary of the properties *)

RegistryPairs ==
    UNION { {SHORTCUT_REGISTRY[f][j].sequence : j \in 1..Len(SHORTCUT_REGISTRY[f])} :
              f \in DOMAIN SHORTCUT_REGISTRY }

FirstKeys == {p[1] : p \in RegistryPairs}

EligibleKey == Eligible(ev)

Key == ToLowerCase(ev.key)

\* the eligible key before this one was a valid first key pressed while Idle
AfterFirstKey(f) ==
    /\ EligibleKey
    /\ pre.prevKey.key = f
    /\ pre.prevKey.idle
    /\ f \in FirstKeys

SinceFirstKey == now - pre.prevKey.at

Notes(kind) == {j \in 1..Len(fx.notes) : fx.notes[j].kind = kind}

TimerCleared == timeoutRef = Null /\ timers = {}

----------------------------------------------------------------------------
(* Properties *)

\* C1: for every (firstKey, secondKey) of the registry, firstKey pressed while
\* Idle and then secondKey as the next eligible key, less than SEQUENCE_TIMEOUT
\* later, calls that entry's handler exactly once, calls no other handler, and
\* leaves the state Idle.
C1_ChordInvokesHandlerOnce ==
    \A p \in RegistryPairs :
        (AfterFirstKey(p[1]) /\ Key = p[2] /\ SinceFirstKey < SEQUENCE_TIMEOUT)
            => /\ Len(fx.invoked) = 1
               /\ fx.invoked[1].sequence = p
               /\ sequenceState = Idle

C1_Witness ==
    /\ AfterFirstKey("n") /\ Key = "i" /\ SinceFirstKey = 299
    /\ Len(fx.invoked) = 1 /\ fx.invoked[1].sequence = <<"n", "i">>
    /\ sequenceState = Idle

\* C2: when more than SEQUENCE_TIMEOUT has passed since a valid first key, a key
\* registered as its second key does not call the handler.
C2_NoHandlerAfterTimeout ==
    \A p \in RegistryPairs :
        (AfterFirstKey(p[1]) /\ Key = p[2] /\ SinceFirstKey > SEQUENCE_TIMEOUT)
            => fx.invoked = << >>

C2_Witness ==
    /\ AfterFirstKey("g") /\ Key = "o" /\ SinceFirstKey > SEQUENCE_TIMEOUT
    /\ fx.invoked = << >>

\* C3: with no further key, the armed timeout returns the state to Idle once
\* SEQUENCE_TIMEOUT has elapsed: the state is never Awaiting later than that.
C3_TimerReturnsToIdle ==
    sequenceState.status = "waiting" => now - sequenceState.timestamp <= SEQUENCE_TIMEOUT

\* C4: Escape pressed (eligible) while Awaiting returns to Idle, calls nothing,
\* whatever time has elapsed, and clears the timer and the awaiting toast.
C4_EscapeCancels ==
    (EligibleKey /\ Key = "escape" /\ pre.sequenceState.status = "waiting")
        => /\ sequenceState = Idle
           /\ fx.invoked = << >> /\ fx.opened = << >>
           /\ TimerCleared
           /\ toasts = {}

C4_Witness ==
    /\ EligibleKey /\ Key = "escape" /\ pre.sequenceState.status = "waiting"
    /\ pre.toasts # {}
    /\ now - pre.sequenceState.timestamp > SEQUENCE_TIMEOUT
    /\ sequenceState = Idle /\ toasts = {}

\* C5 as claimed: after a valid first key, any key not registered as its second
\* key, pressed within the timeout, calls no handler, shows "unknown sequence"
\* once and leaves the state Idle with the timer cleared.
C5_UnknownSecondKey_AnyKey ==
    \A f \in FirstKeys :
        (AfterFirstKey(f) /\ <<f, Key>> \notin RegistryPairs
                          /\ SinceFirstKey < SEQUENCE_TIMEOUT)
            => /\ fx.invoked = << >>
               /\ Cardinality(Notes("unknown")) = 1
               /\ sequenceState = Idle
               /\ TimerCleared

\* C5 as amended: the same for every such key other than Escape and Shift.
C5_UnknownSecondKey ==
    \A f \in FirstKeys :
        (AfterFirstKey(f) /\ <<f, Key>> \notin RegistryPairs
                          /\ Key \notin {"escape", "shift"}
                          /\ SinceFirstKey < SEQUENCE_TIMEOUT)
            => /\ fx.invoked = << >>
               /\ Cardinality(Notes("unknown")) = 1
               /\ Len(fx.notes) = 1
               /\ sequenceState = Idle
               /\ TimerCleared

C5_Witness ==
    /\ AfterFirstKey("n") /\ Key = "g" /\ SinceFirstKey = 299
    /\ fx.notes = << [kind |-> "unknown", about |-> <<"n", "g">>] >>
    /\ sequenceState = Idle

\* C6: a key with no registry entries, pressed while Idle, leaves the state
\* Idle, arms no timer, shows no feedback and calls no handler.
C6_UnknownPrefixIgnored ==
    (EligibleKey /\ pre.sequenceState = Idle /\ Key \notin FirstKeys)
        => /\ sequenceState = Idle
           /\ timeoutRef = pre.timeoutRef /\ timers = pre.timers /\ TimerCleared
           /\ toasts = pre.toasts /\ fx.shown = 0 /\ fx.notes = << >>
           /\ fx.invoked = << >>

C6_Witness ==
    /\ EligibleKey /\ pre.sequenceState = Idle /\ Key = "c"
    /\ sequenceState = Idle /\ fx = NoFx

\* C7: a handler that throws is caught: nothing leaves the key handler, a failure
\* notification and no success notification is shown, the timer is cleared and
\* the state is Idle.
C7_HandlerFailureCaught ==
    (EligibleKey /\ fx.invoked # << >> /\ fx.invoked[1].threw)
        => /\ ~fx.uncaught
           /\ Cardinality(Notes("failure")) = 1
           /\ Notes("success") = {}
           /\ TimerCleared
           /\ sequenceState = Idle

C7_Witness ==
    /\ EligibleKey /\ fx.invoked # << >> /\ fx.invoked[1].threw
    /\ pre.sequenceState.status = "waiting"
    /\ sequenceState = Idle

\* C8: Shift pressed less than DOUBLE_SHIFT_TIMEOUT after a Shift press that did
\* not itself open the search, with no eligible key between the two, opens the
\* search exactly once and resets the tracked timestamp to none.
C8_DoubleShiftOpensSearchOnce ==
    (EligibleKey /\ Key = "shift" /\ pre.prevKey.key = "shift" /\ ~pre.prevKey.opened
                 /\ now - pre.prevKey.at < DOUBLE_SHIFT_TIMEOUT)
        => /\ fx.opened = <<commandMenuOpenRef>>
           /\ fx.invoked = << >>
           /\ lastShiftPressRef = 0

C8_Witness ==
    /\ EligibleKey /\ Key = "shift" /\ pre.prevKey.key = "shift" /\ ~pre.prevKey.opened
    /\ now - pre.prevKey.at = 299
    /\ fx.opened = <<commandMenuOpenRef>> /\ commandMenuOpenRef # NoopSetter

\* C9: a Shift press that follows a press of another key does not open the
\* search: every eligible press of a key other than Shift, in every state,
\* resets the tracked timestamp.
C9_OtherKeyResetsShift ==
    /\ (EligibleKey /\ Key = "shift" /\ pre.prevKey.key \notin {"shift", "none"})
           => fx.opened = << >>
    /\ (EligibleKey /\ Key # "shift") => lastShiftPressRef = 0

\* C10: while a text-entry surface holds focus, a key event (Shift and Escape
\* included) changes neither the chord state, the timer, the double-tap
\* timestamp nor the feedback, and calls nothing.
C10_FocusedInputIgnoresKeys ==
    (ev.type = "keydown" /\ TextEntrySurface(ev.activeElement))
        => /\ sequenceState = pre.sequenceState
           /\ timeoutRef = pre.timeoutRef /\ timers = pre.timers
           /\ lastShiftPressRef = pre.lastShiftPressRef
           /\ toasts = pre.toasts
           /\ fx = NoFx

C10_Witness ==
    /\ ev.type = "keydown" /\ ev.activeElement.role = "textbox"
    /\ ev.key = "Escape"
    /\ pre.sequenceState.status = "waiting" /\ sequenceState = pre.sequenceState
    /\ lastShiftPressRef > 0 /\ toasts # {}

\* C11: a key event with Ctrl, Alt or Meta held changes neither the chord
\* state, the timer, the double-tap timestamp nor the feedback and calls
\* nothing; with Shift alone held the event is handled, and as the same key
\* without Shift: Shift+N pressed while Idle starts the sequence of n.
C11_ModifierGate ==
    /\ (ev.type = "keydown" /\ (ev.ctrlKey \/ ev.altKey \/ ev.metaKey))
           => /\ sequenceState = pre.sequenceState
              /\ timeoutRef = pre.timeoutRef /\ timers = pre.timers
              /\ lastShiftPressRef = pre.lastShiftPressRef
              /\ toasts = pre.toasts
              /\ fx = NoFx
    /\ (ev.type = "keydown" /\ ev.key = "N" /\ ev.shiftKey
            /\ ~TextEntrySurface(ev.activeElement) /\ pre.sequenceState = Idle)
           => /\ sequenceState.status = "waiting"
              /\ sequenceState.firstKey = "n"
              /\ fx.shown = 1

C11_Witness ==
    /\ ev.type = "keydown" /\ ev.metaKey /\ ev.key = "Shift"
    /\ pre.sequenceState.status = "waiting" /\ sequenceState = pre.sequenceState
    /\ pre.lastShiftPressRef > 0 /\ lastShiftPressRef = pre.lastShiftPressRef
    /\ fx = NoFx

C11_WitnessShift ==
    /\ ev.type = "keydown" /\ ev.key = "N" /\ ev.shiftKey
    /\ pre.sequenceState = Idle /\ sequenceState.status = "waiting"

\* C12: the timer is cleared on every transition out of Awaiting: whenever the
\* state is Idle, timeoutRef is null and no timeout is pending.
C12_IdleHasNoTimer ==
    sequenceState = Idle => TimerCleared

C12_Witness ==
    /\ EligibleKey /\ pre.sequenceState.status = "waiting" /\ pre.timeoutRef # Null
    /\ fx.invoked # << >>
    /\ sequenceState = Idle /\ TimerCleared

C14_LatestSetter ==
    /\ fx.invoked # << >> =>
           \A j \in 1..Len(fx.invoked) :
               fx.invoked[j].ctx.setCommandMenuOpen = commandMenuOpenRef
    /\ fx.opened # << >> =>
           \A j \in 1..Len(fx.opened) : fx.opened[j] = commandMenuOpenRef

C14_Witness ==
    /\ AfterFirstKey("n") /\ Key = "c"
    /\ pre.prevKey.setter # commandMenuOpenRef
    /\ fx.invoked # << >>
    /\ fx.invoked[1].ctx.setCommandMenuOpen = commandMenuOpenRef

\* C15: the awaiting toast is never on screen while the state is Idle.
C15_NoAwaitingToastWhileIdle ==
    sequenceState = Idle => toasts = {}

C15_Witness ==
    /\ EligibleKey /\ pre.sequenceState.status = "waiting"
    /\ \E x \in pre.toasts : x.id = pre.sequenceState.toastId
    /\ Notes("unknown") # {}
    /\ sequenceState = Idle /\ toasts = {}

\* C16: at most one sequence is in flight: a key pressed while Awaiting starts
\* no sequence, and at most one timeout is pending and one awaiting toast shown.
C16_OneSequenceInFlight ==
    /\ Cardinality(timers) <= 1
    /\ Cardinality(toasts) <= 1
    /\ (ev.type = "keydown" /\ pre.sequenceState.status = "waiting")
           => /\ fx.shown = 0
              /\ sequenceState \in {Idle, pre.sequenceState}

C16_Witness ==
    /\ EligibleKey /\ Key = "g" /\ pre.sequenceState.status = "waiting"
    /\ pre.sequenceState.firstKey = "n"
    /\ fx.shown = 0 /\ toasts = {} /\ sequenceState = Idle

\* C17: an expired sequence is reset silently: the key press that finds it
\* expired calls no handler and shows no notification, and no other step does.
C17_ExpirySilent ==
    /\ (EligibleKey /\ pre.sequenceState.status = "waiting"
            /\ now - pre.sequenceState.timestamp > SEQUENCE_TIMEOUT)
           => fx.invoked = << >> /\ fx.notes = << >>
    /\ ev.type # "keydown" => fx = NoFx

C17_Witness ==
    /\ EligibleKey /\ Key = "g" /\ pre.sequenceState.status = "waiting"
    /\ pre.sequenceState.firstKey = "n"
    /\ now - pre.sequenceState.timestamp > SEQUENCE_TIMEOUT
    /\ sequenceState = Idle /\ fx.notes = << >>

\* C18: whenever the state is Awaiting, the timeout of that sequence is pending.
C18_TimerArmedWhileAwaiting ==
    sequenceState.status = "waiting" => timeoutRef \in timers

\* C19: whenever the state is Awaiting, its awaiting toast is on screen.
C19_ToastShownWhileAwaiting ==
    sequenceState.status = "waiting" => \E x \in toasts : x.id = sequenceState.toastId

\* C20 as claimed: every eligible key pressed while Awaiting returns the state
\* to Idle, Shift included.
C20_EveryKeyLeavesAwaiting ==
    (EligibleKey /\ pre.sequenceState.status = "waiting") => sequenceState = Idle

\* C20 as amended: every eligible key other than Shift does; Shift goes to the
\* double-tap recognizer alone and leaves the sequence as it was.
C20_EveryKeyButShiftLeavesAwaiting ==
    (EligibleKey /\ pre.sequenceState.status = "waiting")
        => IF Key = "shift"
           THEN sequenceState = pre.sequenceState /\ toasts = pre.toasts
                    /\ fx.notes = << >> /\ fx.invoked = << >>
           ELSE sequenceState = Idle

C20_Witness ==
    /\ EligibleKey /\ Key = "shift" /\ pre.sequenceState.status = "waiting"
    /\ sequenceState = pre.sequenceState /\ lastShiftPressRef = now

\* C21: after a sequence has timed out (more than SEQUENCE_TIMEOUT since its
\* first key, no key in between) the next eligible key is handled as in Idle: a
\* valid first key enters Awaiting for that key, shows the awaiting toast and
\* arms a new timer.
C21_KeyAfterTimeoutStartsSequence ==
    \A f \in FirstKeys :
        (AfterFirstKey(f) /\ SinceFirstKey > SEQUENCE_TIMEOUT /\ Key \in FirstKeys)
            => /\ sequenceState.status = "waiting"
               /\ sequenceState.firstKey = Key
               /\ sequenceState.timestamp = now
               /\ fx.shown = 1
               /\ timeoutRef # Null

\* C22: a second key resolves a chord only when strictly less than
\* SEQUENCE_TIMEOUT has elapsed since the first key: a matching second key at
\* exactly SEQUENCE_TIMEOUT calls no handler.
C22_StrictlyWithinTimeout ==
    \A p \in RegistryPairs :
        (AfterFirstKey(p[1]) /\ Key = p[2] /\ SinceFirstKey = SEQUENCE_TIMEOUT)
            => fx.invoked = << >>

\* C23: every key event is interpreted against the state the previous event
\* left: a sequence is started only by a key that found the state Idle, so an
\* awaiting toast or a pending timeout is always the one of the sequence that
\* is awaiting, the one whose handle is kept.
C23_KeysSeeLatestState ==
    /\ (ev.type = "keydown" /\ fx.shown > 0) => pre.sequenceState = Idle
    /\ \A x \in toasts :
           sequenceState.status = "waiting" /\ x.id = sequenceState.toastId
    /\ \A h \in timers : h = timeoutRef
    /\ sequenceState.status = "waiting" => timeoutRef = sequenceState.toastId

C23_Witness ==
    /\ AfterFirstKey("n") /\ Key = "g" /\ SinceFirstKey = 0
    /\ pre.sequenceState.status = "waiting" /\ pre.sequenceState.firstKey = "n"
    /\ fx.shown = 0 /\ Notes("unknown") # {}
    /\ sequenceState = Idle

\* C24: once the provider is unmounted its listener is removed and no timeout
\* is pending: a key event or the passing of time changes neither the chord
\* state, the timer, the double-tap timestamp nor the feedback, and calls
\* nothing.
C24_UnmountStopsDispatcher ==
    ~mounted =>
        /\ ~listening
        /\ timers = {}
        /\ ev.type \in {"keydown", "tick"}
               => /\ sequenceState = pre.sequenceState
                  /\ timeoutRef = pre.timeoutRef
                  /\ lastShiftPressRef = pre.lastShiftPressRef
                  /\ toasts = pre.toasts
                  /\ fx = NoFx

C24_Witness ==
    /\ ~mounted
    /\ ev.type = "keydown" /\ ev.key = "c" /\ Eligible(ev)
    /\ pre.sequenceState.status = "waiting" /\ pre.sequenceState.firstKey = "n"
    /\ now - pre.sequenceState.timestamp < SEQUENCE_TIMEOUT
    /\ sequenceState = pre.sequenceState /\ fx = NoFx

\* C25: a Shift press DOUBLE_SHIFT_TIMEOUT or more after the tracked press does
\* not open the search and becomes the tracked press; a Shift press less than
\* DOUBLE_SHIFT_TIMEOUT after the tracked press opens it once.
C25_LateShiftBecomesTracked ==
    /\ (EligibleKey /\ Key = "shift" /\ pre.lastShiftPressRef > 0
            /\ now - pre.lastShiftPressRef >= DOUBLE_SHIFT_TIMEOUT)
           => /\ fx.opened = << >>
              /\ lastShiftPressRef = now
    /\ (EligibleKey /\ Key = "shift" /\ pre.lastShiftPressRef > 0
            /\ now - pre.lastShiftPressRef < DOUBLE_SHIFT_TIMEOUT)
           => Len(fx.opened) = 1

C25_Witness ==
    /\ EligibleKey /\ Key = "shift"
    /\ pre.prevKey.key = "shift" /\ pre.lastShiftPressRef = pre.prevKey.at
    /\ now - pre.lastShiftPressRef = DOUBLE_SHIFT_TIMEOUT
    /\ fx.opened = << >> /\ lastShiftPressRef = now

C27_NoDuplicateFilters ==
    /\ \A i, j \in 1..Len(activeFilters) :
           i # j => activeFilters[i].id # activeFilters[j].id
    /\ (call.op = "addFilter"
            /\ \E j \in 1..Len(prior) : prior[j].id = generateFilterId(call.arg))
           => activeFilters = prior

C27_Witness ==
    /\ call.op = "addFilter" /\ call.arg.value.kind = "string"
    /\ \E j \in 1..Len(prior) :
           /\ prior[j].id = generateFilterId(call.arg)
           /\ prior[j].value.kind = "number"
    /\ Len(prior) > 1
    /\ activeFilters = prior

\* C28: setOpen(false) resets the flow from any state: step 1, no customer, no
\* items, no employee, closed; setOpen(true) changes nothing but open.
C28_CloseResets ==
    /\ (call.op = "setOpen" /\ call.arg = FALSE)
           => /\ step = FirstStep
              /\ selectedCustomer = NoCustomer
              /\ selectedItems = << >>
              /\ employee = ""
              /\ open = FALSE
    /\ (call.op = "setOpen" /\ call.arg = TRUE)
           => SequentialState = [prior EXCEPT !.open = TRUE]

C28_Witness ==
    /\ call.op = "setOpen" /\ call.arg = FALSE
    /\ prior.open /\ prior.step = LastStep /\ prior.selectedCustomer # NoCustomer
    /\ prior.selectedItems # << >> /\ prior.employee # ""
    /\ step = FirstStep /\ selectedItems = << >> /\ ~open

\* C29: selectedItems holds at most one entry per item id, and addItem for an
\* id already selected replaces that entry's quantity in place: no entry is
\* added, moved or otherwise changed.
C29_OneEntryPerItem ==
    /\ \A i, j \in 1..Len(selectedItems) :
           i # j => selectedItems[i].item.id # selectedItems[j].item.id
    /\ (call.op = "addItem" /\ FindIndex(prior.selectedItems, call.arg[1].id) > 0)
           => /\ Len(selectedItems) = Len(prior.selectedItems)
              /\ \A j \in 1..Len(selectedItems) :
                     /\ selectedItems[j].item = prior.selectedItems[j].item
                     /\ selectedItems[j].quantity =
                            IF selectedItems[j].item.id = call.arg[1].id
                            THEN call.arg[2]
                            ELSE prior.selectedItems[j].quantity

C29_Witness ==
    /\ call.op = "addItem" /\ Len(prior.selectedItems) = 2
    /\ prior.selectedItems[1].item.id = call.arg[1].id
    /\ prior.selectedItems[1].quantity # call.arg[2]
    /\ Len(selectedItems) = 2 /\ selectedItems[1].quantity = call.arg[2]

\* C30: step stays within 1..4: goBack at step 1 and goNext at step 4 leave it
\* unchanged, otherwise each call moves it by exactly one.
C30_StepInRange ==
    /\ step \in FirstStep..LastStep
    /\ call.op = "goBack"
           => step = IF prior.step = FirstStep THEN prior.step ELSE prior.step - 1
    /\ call.op = "goNext"
           => step = IF prior.step = LastStep THEN prior.step ELSE prior.step + 1

C30_Witness ==
    /\ call.op = "goNext" /\ prior.step = LastStep /\ step = LastStep

====
